---- MODULE Spec2Model ----
(***************************************************************************)
(* Photo gallery with a lightbox viewer (src/script.js).                   *)
(*                                                                         *)
(* The state is the closure state of the script (photos, currentIndex,     *)
(* touchStartX, touchEndX), the DOM properties the script writes           *)
(* (lightbox.hidden, body overflow, the lightbox image's src/alt/class,    *)
(* the caption, the visibility of the two controls, the gallery content,   *)
(* the loading indicator), and the asynchronous work the script starts:    *)
(* the manifest fetch, the load of the lightbox image, and the preload     *)
(* fetches.  Indices are 0-based as in the script; photos is a TLA+        *)
(* sequence, so photo i of the script is photos[i+1].                      *)
(*                                                                         *)
(* Every listener is modelled with the guards its own code has.  Whether   *)
(* the browser delivers an event to a listener is the environment's        *)
(* choice: the page's markup and style sheet are not part of the script.   *)
(***************************************************************************)
EXTENDS Integers, Sequences, FiniteSets, TLC

VARIABLES
    photos,          \* let photos = []
    currentIndex,    \* let currentIndex = -1
    touchStartX,     \* let touchStartX = 0
    touchEndX,       \* let touchEndX = 0
    lightboxHidden,  \* lightbox.hidden
    bodyOverflow,    \* document.body.style.overflow
    imageLoaded,     \* lightboxImage.classList contains 'loaded'
    imageSrc,        \* lightboxImage.src: 0 = none, f = images/full/<f>
    imageAlt,        \* lightboxImage.alt
    caption,         \* lightboxCaption.textContent
    imagePending,    \* a load of lightboxImage.src is in flight
    prevVisible,     \* lightboxPrev.style.visibility = 'visible'
    nextVisible,     \* lightboxNext.style.visibility = 'visible'
    preloading,      \* full-size resources whose preload fetch is in flight
    gallery,         \* content of the gallery element
    loadingHidden,   \* loading.hidden
    manifestFetches, \* number of fetch('manifest.json') calls made
    command,         \* the command the latest step applied to the viewer
    contentUpdated,  \* the latest step wrote the lightbox content
    preloadIssued    \* indices whose preload the latest step started

viewer == <<currentIndex, lightboxHidden, bodyOverflow, imageLoaded, imageSrc,
            imageAlt, caption, imagePending, prevVisible, nextVisible,
            preloading, contentUpdated, preloadIssued>>

touch == <<touchStartX, touchEndX>>

page == <<photos, gallery, loadingHidden, manifestFetches>>

vars == <<photos, currentIndex, touchStartX, touchEndX, lightboxHidden,
          bodyOverflow, imageLoaded, imageSrc, imageAlt, caption,
          imagePending, prevVisible, nextVisible, preloading, gallery,
          loadingHidden, manifestFetches, command, contentUpdated,
          preloadIssued>>

(***************************************************************************)
(* Bounds of the model.                                                    *)
(***************************************************************************)
MaxPhotos == 3

\* Capture dates a manifest entry may carry (local calendar fields).
Dates == { [year |-> 2023, month |-> 12, day |-> 31],
           [year |-> 2024, month |-> 1,  day |-> 1] }

\* screenX values of a touch: differences 0, 50, 51, 101 in both directions.
TouchXs == {0, 50, 101}

\* screenY values of a touch; the handlers never read them.
TouchYs == {0, 300}

\* changedTouches[0] of a touch event.
Touches == [screenX : TouchXs, screenY : TouchYs]

\* Keys the document listener distinguishes, and one it does not.
Keys == {"Escape", "ArrowLeft", "ArrowRight", "Enter"}

\* Keys the gallery item listener distinguishes, and one it does not.
ItemKeys == {"Enter", " ", "Tab"}

\* Targets of a click that reaches the lightbox listener.
ClickTargets == {"lightbox", "image", "close"}

(***************************************************************************)
(* Manifests.  An entry's filename is its position in the manifest, so a   *)
(* catalog entry can be traced to the manifest entry it came from.  The    *)
(* script does not validate the body: photos may be a string, and an       *)
(* entry may be null, a falsy value (0, false, "") or an object without    *)
(* dateCaptured, all of which JSON allows.                                 *)
(***************************************************************************)
ManifestLists ==
    UNION { { [k \in 1..n |-> [filename |-> k, dateCaptured |-> ds[k]]] :
                ds \in [1..n -> Dates] } : n \in 0..MaxPhotos }

\* A null entry of manifest.photos.
Null == [null |-> TRUE]

\* The value of a property the entry does not have, and the fields of
\* new Date(undefined).
Undefined == -1

NaN == -1

InvalidDate == [year |-> NaN, month |-> NaN, day |-> NaN]

\* An element of a string: no filename, no dateCaptured.
Bare == [filename |-> Undefined, dateCaptured |-> InvalidDate]

\* An entry 0, false or "": reading a property of it gives undefined and
\* the entry itself is falsy.
Falsy == [filename |-> Undefined, dateCaptured |-> InvalidDate,
          falsy |-> TRUE]

\* The newest and the oldest capture date.
Newest == CHOOSE d \in Dates :
              \A e \in Dates : d.year * 372 + d.month * 31 + d.day
                                 >= e.year * 372 + e.month * 31 + e.day

Oldest == CHOOSE d \in Dates :
              \A e \in Dates : d.year * 372 + d.month * 31 + d.day
                                 <= e.year * 372 + e.month * 31 + e.day

\* Lists whose first entry is falsy: [0] and [0, {...}].
FalsyLists ==
    { <<Falsy>>, <<Falsy, [filename |-> 2, dateCaptured |-> Newest]>> }

\* A list whose second entry has no dateCaptured, between an older and a
\* newer entry.
DatelessLists ==
    IF MaxPhotos < 3 THEN {}
    ELSE { << [filename |-> 1, dateCaptured |-> Oldest],
              [filename |-> 2, dateCaptured |-> InvalidDate],
              [filename |-> 3, dateCaptured |-> Newest] >> }

\* Lists whose last entry is null, after entries of one date.
NullLists ==
    { Append(m, Null) :
        m \in { x \in ManifestLists :
                   /\ Len(x) < MaxPhotos
                   /\ \A k \in 1..Len(x) : x[k].dateCaptured = Newest } }

\* A list whose last entry is null, after an older and a newer entry.
UnsortedNullLists ==
    IF MaxPhotos < 3 THEN {}
    ELSE { << [filename |-> 1, dateCaptured |-> Oldest],
              [filename |-> 2, dateCaptured |-> Newest],
              Null >> }

\* manifest.photos given as a string: its elements, one per character.
StringPhotos == { [k \in 1..n |-> Bare] : n \in 1..MaxPhotos }

\* manifest.photos: a list, a string, or absent.
Manifests == [has : {TRUE}, isArray : {TRUE},
              photos : ManifestLists \cup NullLists \cup FalsyLists
                           \cup DatelessLists \cup UnsortedNullLists]
             \cup [has : {TRUE}, isArray : {FALSE}, photos : StringPhotos]
             \cup { [has |-> FALSE, isArray |-> TRUE, photos |-> <<>>] }

\* V8 before 7.0 sorts an array of up to this many entries by insertion.
InsertionSortLimit == 10

\* Manifests one entry longer than the engines sort by insertion, every
\* entry with a date.
LongManifests ==
    [has : {TRUE}, isArray : {TRUE},
     photos : { [k \in 1..(InsertionSortLimit + 1) |->
                    [filename |-> k, dateCaptured |-> ds[k]]] :
                  ds \in [1..(InsertionSortLimit + 1) -> Dates] }]

\* Full-size resources a fetch can name: images/full/<filename>.
Resources == (1..MaxPhotos) \cup {Undefined}

\* Outcomes of fetch + response.ok + response.json().
FetchOutcomes == {"network-error", "not-ok", "parse-error", "ok"}

(***************************************************************************)
(* formatDate: MM/DD/YYYY, month and day padded to two digits.             *)
(***************************************************************************)
Digit(n) == <<"0", "1", "2", "3", "4", "5", "6", "7", "8", "9">>[n + 1]

\* String(n).padStart(2, '0'); String(NaN) is already three characters.
padStart2(n) == IF n = NaN THEN <<"NaN">>
                ELSE IF n < 10 THEN <<"0", Digit(n)>>
                ELSE <<Digit(n \div 10), Digit(n % 10)>>

YearDigits(y) == IF y = NaN THEN <<"NaN">>
                 ELSE <<Digit(y \div 1000), Digit((y \div 100) % 10),
                        Digit((y \div 10) % 10), Digit(y % 10)>>

formatDate(d) ==
    padStart2(d.month) \o <<"/">> \o padStart2(d.day) \o <<"/">>
        \o YearDigits(d.year)

\* `Photo from ${formatDate(...)}`
PhotoFrom(d) == <<"Photo from ">> \o formatDate(d)

(***************************************************************************)
(* The sort of init(): photos.sort((a, b) => new Date(b.dateCaptured) -    *)
(* new Date(a.dateCaptured)).  What Array.prototype.sort leaves in the     *)
(* array depends on the engine that runs the script:                       *)
(*  - since ES2019 (V8 from 7.0, QuickJS) the sort is stable and works on  *)
(*    a copy: a comparator that throws leaves the array as it was;         *)
(*  - V8 before 7.0 sorts in place, up to InsertionSortLimit entries by    *)
(*    insertion (stable) and longer arrays by a quicksort that is not      *)
(*    stable; a comparator that throws leaves what had been moved.         *)
(* A missing dateCaptured makes the comparator return NaN, which no test   *)
(* of the sort takes for "before" or "after"; next to two entries of       *)
(* different dates the comparator is then not consistent, and the order    *)
(* of the result is the engine's choice: any ordering of the entries.      *)
(***************************************************************************)
\* new Date(d) as a number that orders dates as their time values do.
TimeValue(d) == (d.year * 12 + (d.month - 1)) * 31 + (d.day - 1)

compareFn(a, b) == TimeValue(b.dateCaptured) - TimeValue(a.dateCaptured)

\* The comparator's result as sort reads it: NaN, the difference with an
\* Invalid Date, counts as 0.
sortCompare(x, y) ==
    IF x.dateCaptured = InvalidDate \/ y.dateCaptured = InvalidDate
    THEN 0
    ELSE compareFn(x, y)

\* The tests "order > 0", "order < 0" and "order >= 0" on the comparator's
\* result: all three are false on NaN.
Positive(x, y) ==
    /\ x.dateCaptured # InvalidDate
    /\ y.dateCaptured # InvalidDate
    /\ compareFn(x, y) > 0

Negative(x, y) ==
    /\ x.dateCaptured # InvalidDate
    /\ y.dateCaptured # InvalidDate
    /\ compareFn(x, y) < 0

NonNegative(x, y) ==
    /\ x.dateCaptured # InvalidDate
    /\ y.dateCaptured # InvalidDate
    /\ compareFn(x, y) >= 0

RECURSIVE InsertSorted(_, _)
InsertSorted(x, s) ==
    IF s = <<>> THEN <<x>>
    ELSE IF sortCompare(Head(s), x) <= 0
         THEN <<Head(s)>> \o InsertSorted(x, Tail(s))
         ELSE <<x>> \o s

\* The stable sort of s, for a consistent comparator and no null entry
\* among two or more.
RECURSIVE SortPhotos(_)
SortPhotos(s) ==
    IF s = <<>> THEN <<>>
    ELSE InsertSorted(s[Len(s)], SortPhotos(SubSeq(s, 1, Len(s) - 1)))

\* The comparator is not consistent on s: an entry without a date is
\* "equal" to two entries that are not equal to each other.
Inconsistent(s) ==
    /\ Len(s) >= 3
    /\ \E k \in 1..Len(s) : s[k] # Null /\ s[k].dateCaptured = InvalidDate
    /\ \E i, j \in 1..Len(s) :
          /\ s[i] # Null
          /\ s[j] # Null
          /\ s[i].dateCaptured # InvalidDate
          /\ s[j].dateCaptured # InvalidDate
          /\ compareFn(s[i], s[j]) # 0

Orderings(s) ==
    { [i \in 1..Len(s) |-> s[p[i]]] :
        p \in { f \in [1..Len(s) -> 1..Len(s)] :
                  \A a, b \in 1..Len(s) : f[a] = f[b] => a = b } }

(***************************************************************************)
(* The sort of V8 before 7.0.  Indices are those of the engine: a[i] of    *)
(* the engine is a[i + 1] here, and a range is from (inclusive) to to      *)
(* (exclusive).  A sort returns the array and whether the comparator       *)
(* threw, which it does when one of its arguments is null.                 *)
(***************************************************************************)
\* Insertion sort of the range: the comparator first meets a null entry as
\* the first comparison of a round, with the entries before it in order
\* and nothing else moved.
InsertionSort(a, from, to) ==
    LET sub == SubSeq(a, from + 1, to)
        nulls == { k \in 1..Len(sub) : sub[k] = Null }
        first == CHOOSE k \in nulls : \A j \in nulls : k <= j
    IN  IF Len(sub) < 2 \/ nulls = {}
        THEN [a |-> SubSeq(a, 1, from) \o SortPhotos(sub)
                        \o SubSeq(a, to + 1, Len(a)),
              threw |-> FALSE]
        ELSE [a |-> SubSeq(a, 1, from)
                        \o SortPhotos(SubSeq(sub, 1, first - 1))
                        \o SubSeq(sub, first, Len(sub))
                        \o SubSeq(a, to + 1, Len(a)),
              threw |-> TRUE]

\* The inner loop of a partition round: high_start moves down to an entry
\* that is not after the pivot, or meets i.
RECURSIVE Scan(_, _, _, _)
Scan(a, i, high_start, pivot) ==
    LET h == high_start - 1
    IN  IF h = i
        THEN [kind |-> "break", high_start |-> h, negative |-> FALSE]
        ELSE IF a[h + 1] = Null
        THEN [kind |-> "throw", high_start |-> h, negative |-> FALSE]
        ELSE IF Positive(a[h + 1], pivot)
        THEN Scan(a, i, h, pivot)
        ELSE [kind |-> "done", high_start |-> h,
              negative |-> Negative(a[h + 1], pivot)]

\* The partition loop from i on: entries before the pivot go below
\* low_end, entries after it go to high_start and above.
RECURSIVE Partition(_, _, _, _, _)
Partition(a, i, low_end, high_start, pivot) ==
    IF i >= high_start
    THEN [a |-> a, low_end |-> low_end, high_start |-> high_start,
          threw |-> FALSE]
    ELSE
      LET element == a[i + 1]
      IN  IF element = Null
          THEN [a |-> a, low_end |-> low_end, high_start |-> high_start,
                threw |-> TRUE]
          ELSE IF Negative(element, pivot)
          THEN Partition([a EXCEPT ![i + 1] = a[low_end + 1],
                                   ![low_end + 1] = element],
                         i + 1, low_end + 1, high_start, pivot)
          ELSE IF Positive(element, pivot)
          THEN
            LET s == Scan(a, i, high_start, pivot)
                b == [a EXCEPT ![i + 1] = a[s.high_start + 1],
                               ![s.high_start + 1] = element]
            IN  IF s.kind = "break"
                THEN [a |-> a, low_end |-> low_end,
                      high_start |-> s.high_start, threw |-> FALSE]
                ELSE IF s.kind = "throw"
                THEN [a |-> a, low_end |-> low_end,
                      high_start |-> s.high_start, threw |-> TRUE]
                ELSE IF s.negative
                THEN Partition([b EXCEPT ![i + 1] = b[low_end + 1],
                                         ![low_end + 1] = b[i + 1]],
                               i + 1, low_end + 1, s.high_start, pivot)
                ELSE Partition(b, i + 1, low_end, s.high_start, pivot)
          ELSE Partition(a, i + 1, low_end, high_start, pivot)

\* QuickSort(a, from, to): short ranges by insertion; otherwise the pivot
\* is the median of the first, the last and the middle entry, the range
\* is partitioned around it and both parts are sorted, the shorter first.
\* (The middle entry is the third candidate for ranges up to 1000.)
RECURSIVE QuickSort(_, _, _)
QuickSort(a, from, to) ==
    IF to - from <= InsertionSortLimit
    THEN InsertionSort(a, from, to)
    ELSE
      LET third_index == from + ((to - from) \div 2)
          e0 == a[from + 1]
          e1 == a[to]
          e2 == a[third_index + 1]
      IN  IF e0 = Null \/ e1 = Null \/ e2 = Null
          THEN [a |-> a, threw |-> TRUE]
          ELSE
            LET w0 == IF Positive(e0, e1) THEN e1 ELSE e0
                w1 == IF Positive(e0, e1) THEN e0 ELSE e1
                v == IF NonNegative(w0, e2) THEN <<e2, w0, w1>>
                     ELSE IF Positive(w1, e2) THEN <<w0, e2, w1>>
                     ELSE <<w0, w1, e2>>
                a1 == [a EXCEPT ![from + 1] = v[1], ![to] = v[3]]
                a2 == [a1 EXCEPT ![third_index + 1] = a1[from + 2],
                                 ![from + 2] = v[2]]
                p == Partition(a2, from + 2, from + 1, to - 1, v[2])
                upperFirst == QuickSort(p.a, p.high_start, to)
                lowerFirst == QuickSort(p.a, from, p.low_end)
            IN  IF p.threw
                THEN [a |-> p.a, threw |-> TRUE]
                ELSE IF to - p.high_start < p.low_end - from
                THEN IF upperFirst.threw THEN upperFirst
                     ELSE QuickSort(upperFirst.a, from, p.low_end)
                ELSE IF lowerFirst.threw THEN lowerFirst
                     ELSE QuickSort(lowerFirst.a, p.high_start, to)

\* Array.prototype.sort of V8 before 7.0 on an array without holes.
ArraySort(s) ==
    IF Len(s) < 2 THEN [a |-> s, threw |-> FALSE]
    ELSE QuickSort(s, 0, Len(s))

\* The lists photos.sort(...) can leave in photos when it returns.
SortOutcomes(s) ==
    IF Inconsistent(s) THEN Orderings(s)
    ELSE {SortPhotos(s), ArraySort(s).a}

\* The lists photos.sort(...) can leave in photos when the comparator
\* throws.
ThrowOutcomes(s) ==
    IF Inconsistent(s) THEN Orderings(s)
    ELSE {s, ArraySort(s).a}

(***************************************************************************)
(* The lightbox functions.  Each is the effect of the function on the      *)
(* viewer variables; the listeners below add what they leave alone.        *)
(***************************************************************************)
InRange(idx) == idx >= 0 /\ idx < Len(photos)

\* photos[idx] is truthy: there is an entry and it is not null.
HasPhoto(idx) == InRange(idx) /\ photos[idx + 1] \notin {Null, Falsy}

\* updateLightboxContent(), with currentIndex already set to idx.
updateLightboxContent(idx) ==
    IF ~HasPhoto(idx)
    THEN /\ UNCHANGED <<imageLoaded, imageSrc, imageAlt, caption,
                        imagePending, prevVisible, nextVisible>>
         /\ contentUpdated' = FALSE
    ELSE /\ imageLoaded' = FALSE
         /\ imageSrc' = photos[idx + 1].filename
         /\ imageAlt' = PhotoFrom(photos[idx + 1].dateCaptured)
         /\ caption' = formatDate(photos[idx + 1].dateCaptured)
         /\ imagePending' = TRUE
         /\ prevVisible' = (idx > 0)
         /\ nextVisible' = (idx < Len(photos) - 1)
         /\ contentUpdated' = TRUE

\* preloadIndexes that also fetches the current photo.
preloadIndexes_WithCurrent(idx) == {idx - 1, idx, idx + 1}

\* The indices preloadAdjacent() starts a fetch for, around idx.
preloadIndexes(idx) == {idx - 1, idx + 1}

\* The indices a fetch is started for: those in range, taken in order,
\* up to the first whose entry is null (reading its filename throws and
\* ends the listener).
PreloadTargets(idx) ==
    { i \in preloadIndexes(idx) :
        /\ InRange(i)
        /\ \A j \in preloadIndexes(idx) :
               (j <= i /\ InRange(j)) => photos[j + 1] # Null }

\* preloadAdjacent(), with currentIndex already set to idx.
preloadAdjacent(idx) ==
    /\ preloadIssued' = PreloadTargets(idx)
    /\ preloading' = preloading
           \cup { photos[i + 1].filename : i \in PreloadTargets(idx) }

openLightbox(index) ==
    /\ currentIndex' = index
    /\ updateLightboxContent(index)
    /\ lightboxHidden' = FALSE
    /\ bodyOverflow' = "hidden"
    /\ preloadAdjacent(index)

\* closeLightbox that leaves the page scroll locked.
closeLightbox_KeepsScrollLock ==
    /\ lightboxHidden' = TRUE
    /\ UNCHANGED bodyOverflow
    /\ currentIndex' = -1
    /\ imageLoaded' = FALSE
    /\ UNCHANGED <<imageSrc, imageAlt, caption, imagePending, prevVisible,
                   nextVisible, preloading>>
    /\ contentUpdated' = FALSE
    /\ preloadIssued' = {}

\* closeLightbox that toggles the lightbox instead of hiding it.
closeLightbox_Toggle ==
    /\ lightboxHidden' = ~lightboxHidden
    /\ bodyOverflow' = ""
    /\ currentIndex' = -1
    /\ imageLoaded' = FALSE
    /\ UNCHANGED <<imageSrc, imageAlt, caption, imagePending, prevVisible,
                   nextVisible, preloading>>
    /\ contentUpdated' = FALSE
    /\ preloadIssued' = {}

closeLightbox ==
    /\ lightboxHidden' = TRUE
    /\ bodyOverflow' = ""
    /\ currentIndex' = -1
    /\ imageLoaded' = FALSE
    /\ UNCHANGED <<imageSrc, imageAlt, caption, imagePending, prevVisible,
                   nextVisible, preloading>>
    /\ contentUpdated' = FALSE
    /\ preloadIssued' = {}

\* The viewer is left as it is and nothing is started.
NoEffect ==
    /\ UNCHANGED <<currentIndex, lightboxHidden, bodyOverflow, imageLoaded,
                   imageSrc, imageAlt, caption, imagePending, prevVisible,
                   nextVisible, preloading>>
    /\ contentUpdated' = FALSE
    /\ preloadIssued' = {}

\* prevPhoto without its boundary test.
prevPhoto_Unguarded ==
    /\ currentIndex' = currentIndex - 1
    /\ updateLightboxContent(currentIndex - 1)
    /\ preloadAdjacent(currentIndex - 1)
    /\ UNCHANGED <<lightboxHidden, bodyOverflow>>

\* prevPhoto whose boundary test admits index 0.
prevPhoto_OffByOne ==
    IF currentIndex >= 0
    THEN /\ currentIndex' = currentIndex - 1
         /\ updateLightboxContent(currentIndex - 1)
         /\ preloadAdjacent(currentIndex - 1)
         /\ UNCHANGED <<lightboxHidden, bodyOverflow>>
    ELSE NoEffect

prevPhoto ==
    IF currentIndex > 0
    THEN /\ currentIndex' = currentIndex - 1
         /\ updateLightboxContent(currentIndex - 1)
         /\ preloadAdjacent(currentIndex - 1)
         /\ UNCHANGED <<lightboxHidden, bodyOverflow>>
    ELSE NoEffect

\* nextPhoto whose boundary test admits the last index.
nextPhoto_OffByOne ==
    IF currentIndex < Len(photos)
    THEN /\ currentIndex' = currentIndex + 1
         /\ updateLightboxContent(currentIndex + 1)
         /\ preloadAdjacent(currentIndex + 1)
         /\ UNCHANGED <<lightboxHidden, bodyOverflow>>
    ELSE NoEffect

nextPhoto ==
    IF currentIndex < Len(photos) - 1
    THEN /\ currentIndex' = currentIndex + 1
         /\ updateLightboxContent(currentIndex + 1)
         /\ preloadAdjacent(currentIndex + 1)
         /\ UNCHANGED <<lightboxHidden, bodyOverflow>>
    ELSE NoEffect

(***************************************************************************)
(* Initial state: the script has run up to the first await of init().      *)
(* The markup is not part of the script: the lightbox starts hidden (the   *)
(* keydown listener reads lightbox.hidden as "closed"), and the controls'  *)
(* inline visibility is whatever the page gives them.                      *)
(***************************************************************************)
Init ==
    /\ photos = <<>>
    /\ currentIndex = -1
    /\ touchStartX = 0
    /\ touchEndX = 0
    /\ lightboxHidden = TRUE
    /\ bodyOverflow = ""
    /\ imageLoaded = FALSE
    /\ imageSrc = 0
    /\ imageAlt = <<>>
    /\ caption = <<>>
    /\ imagePending = FALSE
    /\ prevVisible \in BOOLEAN
    /\ nextVisible \in BOOLEAN
    /\ preloading = {}
    /\ gallery = "initial"
    /\ loadingHidden = FALSE
    /\ manifestFetches = 1
    /\ command = [op |-> "none", index |-> -1]
    /\ contentUpdated = FALSE
    /\ preloadIssued = {}

None == [op |-> "none", index |-> -1]

Cmd(op) == [op |-> op, index |-> -1]

(***************************************************************************)
(* init(): the continuation after fetch('manifest.json') settles.  The     *)
(* part before "await response.json()" writes nothing on the ok path, so   *)
(* the two continuations are one step.                                     *)
(***************************************************************************)
\* renderGallery without the empty-state branch.
renderGallery_NoEmptyState(ps) == "items"

\* renderGallery()
renderGallery(ps) == IF Len(ps) = 0 THEN "empty" ELSE "items"

\* photos.sort(...) throws: photos is not an array, or the comparator
\* reads dateCaptured of a null entry (it is called once there are two
\* entries).
sortThrows(manifest) ==
    \/ ~manifest.isArray
    \/ /\ Len(manifest.photos) >= 2
       /\ \E k \in 1..Len(manifest.photos) : manifest.photos[k] = Null

\* createGalleryItem(photo, index) throws: it reads photo.width of null.
createGalleryItemThrows(ps) == \E k \in 1..Len(ps) : ps[k] = Null

\* The try block of init() from "photos = manifest.photos || []" on, and
\* the catch.  photos keeps what line 230 assigned when a later line
\* throws, in the order the sort had given it by then.
loadPhotos(outcome, manifest) ==
    IF outcome = "ok"
    THEN IF sortThrows(manifest)
         THEN /\ photos' \in IF manifest.isArray
                              THEN ThrowOutcomes(manifest.photos)
                              ELSE {manifest.photos}
              /\ gallery' = "error"
         ELSE /\ photos' \in SortOutcomes(IF manifest.has
                                           THEN manifest.photos ELSE <<>>)
              /\ gallery' = IF createGalleryItemThrows(photos')
                            THEN "error"
                            ELSE renderGallery(photos')
    ELSE /\ photos' = photos
         /\ gallery' = "error"

\* init() whose continuation can run again on a loaded page.
ManifestSettled_Reloads(outcome, manifest) ==
    /\ loadPhotos(outcome, manifest)
    /\ loadingHidden' = TRUE
    /\ UNCHANGED manifestFetches
    /\ command' = None
    /\ NoEffect
    /\ UNCHANGED touch

ManifestSettled(outcome, manifest) ==
    /\ gallery = "initial"
    /\ loadingHidden = FALSE
    /\ loadPhotos(outcome, manifest)
    /\ loadingHidden' = TRUE
    /\ UNCHANGED manifestFetches
    /\ command' = None
    /\ NoEffect
    /\ UNCHANGED touch

\* Number of gallery items: one per photo, once the gallery is rendered.
GalleryItems == IF gallery = "items" THEN 0..(Len(photos) - 1) ELSE {}

(***************************************************************************)
(* Listeners.                                                              *)
(***************************************************************************)
\* item 'click' listener
ItemClick(index) ==
    /\ index \in GalleryItems
    /\ command' = [op |-> "open", index |-> index]
    /\ openLightbox(index)
    /\ UNCHANGED <<touch, page>>

\* item 'keydown' listener
ItemKeydown(index, key) ==
    /\ index \in GalleryItems
    /\ IF key = "Enter" \/ key = " "
       THEN /\ command' = [op |-> "open", index |-> index]
            /\ openLightbox(index)
       ELSE /\ command' = None
            /\ NoEffect
    /\ UNCHANGED <<touch, page>>

\* lightboxClose 'click' listener
CloseClick ==
    /\ command' = Cmd("close")
    /\ closeLightbox
    /\ UNCHANGED <<touch, page>>

\* lightboxPrev 'click' listener
PrevClick ==
    /\ command' = Cmd("prev")
    /\ prevPhoto
    /\ UNCHANGED <<touch, page>>

\* lightboxNext 'click' listener
NextClick ==
    /\ command' = Cmd("next")
    /\ nextPhoto
    /\ UNCHANGED <<touch, page>>

\* lightbox 'click' listener with its target test inverted.
LightboxClick_Inverted(target) ==
    /\ IF target # "lightbox"
       THEN /\ command' = Cmd("close")
            /\ closeLightbox
       ELSE /\ command' = None
            /\ NoEffect
    /\ UNCHANGED <<touch, page>>

\* lightbox 'click' listener (a click on a control that did not stop it,
\* on the image, or on the lightbox itself)
LightboxClick(target) ==
    /\ IF target = "lightbox"
       THEN /\ command' = Cmd("close")
            /\ closeLightbox
       ELSE /\ command' = None
            /\ NoEffect
    /\ UNCHANGED <<touch, page>>

\* document 'keydown' listener without the lightbox.hidden test.
DocumentKeydown_Unguarded(key) ==
    /\ CASE key = "Escape" -> command' = Cmd("close") /\ closeLightbox
         [] key = "ArrowLeft" -> command' = Cmd("prev") /\ prevPhoto
         [] key = "ArrowRight" -> command' = Cmd("next") /\ nextPhoto
         [] OTHER -> command' = None /\ NoEffect
    /\ UNCHANGED <<touch, page>>

\* document 'keydown' listener
DocumentKeydown(key) ==
    /\ IF lightboxHidden
       THEN command' = None /\ NoEffect
       ELSE CASE key = "Escape" -> command' = Cmd("close") /\ closeLightbox
              [] key = "ArrowLeft" -> command' = Cmd("prev") /\ prevPhoto
              [] key = "ArrowRight" -> command' = Cmd("next") /\ nextPhoto
              [] OTHER -> command' = None /\ NoEffect
    /\ UNCHANGED <<touch, page>>

\* handleTouchStart
handleTouchStart(e) ==
    /\ touchStartX' = e.screenX
    /\ UNCHANGED touchEndX
    /\ command' = None
    /\ NoEffect
    /\ UNCHANGED page

threshold == 50

Abs(n) == IF n < 0 THEN -n ELSE n

\* handleSwipe that counts a displacement of exactly the threshold.
handleSwipe_Inclusive(endX) ==
    LET diff == touchStartX - endX IN
    IF Abs(diff) >= threshold
    THEN IF diff > 0
         THEN command' = Cmd("next") /\ nextPhoto
         ELSE command' = Cmd("prev") /\ prevPhoto
    ELSE command' = None /\ NoEffect

\* handleSwipe(), with touchEndX already set to endX
handleSwipe(endX) ==
    LET diff == touchStartX - endX IN
    IF Abs(diff) > threshold
    THEN IF diff > 0
         THEN command' = Cmd("next") /\ nextPhoto
         ELSE command' = Cmd("prev") /\ prevPhoto
    ELSE command' = None /\ NoEffect

\* handleTouchEnd
handleTouchEnd(e) ==
    /\ touchEndX' = e.screenX
    /\ UNCHANGED touchStartX
    /\ handleSwipe(e.screenX)
    /\ UNCHANGED page

(***************************************************************************)
(* Asynchronous completions.                                               *)
(***************************************************************************)
\* lightboxImage.onload
ImageOnload ==
    /\ imagePending
    /\ imagePending' = FALSE
    /\ imageLoaded' = TRUE
    /\ UNCHANGED <<currentIndex, lightboxHidden, bodyOverflow, imageSrc,
                   imageAlt, caption, prevVisible, nextVisible, preloading>>
    /\ contentUpdated' = FALSE
    /\ preloadIssued' = {}
    /\ command' = None
    /\ UNCHANGED <<touch, page>>

\* The load of lightboxImage.src fails: no handler is registered.
ImageError ==
    /\ imagePending
    /\ imagePending' = FALSE
    /\ UNCHANGED <<currentIndex, lightboxHidden, bodyOverflow, imageLoaded,
                   imageSrc, imageAlt, caption, prevVisible, nextVisible,
                   preloading>>
    /\ contentUpdated' = FALSE
    /\ preloadIssued' = {}
    /\ command' = None
    /\ UNCHANGED <<touch, page>>

\* A preload whose end marks the lightbox image as loaded.
PreloadSettled_MarksLoaded(f) ==
    /\ f \in preloading
    /\ preloading' = preloading \ {f}
    /\ imageLoaded' = TRUE
    /\ UNCHANGED <<currentIndex, lightboxHidden, bodyOverflow,
                   imageSrc, imageAlt, caption, imagePending, prevVisible,
                   nextVisible>>
    /\ contentUpdated' = FALSE
    /\ preloadIssued' = {}
    /\ command' = None
    /\ UNCHANGED <<touch, page>>

\* A preload fetch ends, loaded or failed: the Image has no handlers.
PreloadSettled(f) ==
    /\ f \in preloading
    /\ preloading' = preloading \ {f}
    /\ UNCHANGED <<currentIndex, lightboxHidden, bodyOverflow, imageLoaded,
                   imageSrc, imageAlt, caption, imagePending, prevVisible,
                   nextVisible>>
    /\ contentUpdated' = FALSE
    /\ preloadIssued' = {}
    /\ command' = None
    /\ UNCHANGED <<touch, page>>

Next ==
    \/ \E o \in FetchOutcomes, m \in Manifests : ManifestSettled(o, m)
    \/ \E i \in 0..(MaxPhotos - 1) : ItemClick(i)
    \/ \E i \in 0..(MaxPhotos - 1), k \in ItemKeys : ItemKeydown(i, k)
    \/ CloseClick
    \/ PrevClick
    \/ NextClick
    \/ \E t \in ClickTargets : LightboxClick(t)
    \/ \E k \in Keys : DocumentKeydown(k)
    \/ \E e \in Touches : handleTouchStart(e)
    \/ \E e \in Touches : handleTouchEnd(e)
    \/ ImageOnload
    \/ ImageError
    \/ \E f \in Resources : PreloadSettled(f)

Spec == Init /\ [][Next]_vars

\* The load of a long manifest, by itself.
LongManifestSettled == \E m \in LongManifests : ManifestSettled("ok", m)

LoadSpec == Init /\ [][LongManifestSettled]_vars

(***************************************************************************)
(* Properties.                                                             *)
(***************************************************************************)
Size == Len(photos)

Closed == currentIndex = -1

\* The step applied a command that changed the index or opened a photo.
EntersOpenAt ==
    /\ command'.op \in {"open", "next", "prev"}
    /\ currentIndex' >= 0
    /\ (command'.op = "open" \/ currentIndex' # currentIndex)

\* The neighbours of i that are photos of the catalog.
Neighbours(i) == { j \in {i - 1, i + 1} : 0 <= j /\ j < Size }

\* C1: in every reachable state the viewer is Closed (currentIndex = -1) or
\* open at an index i with 0 <= i < catalog size.
C1_IndexInRange ==
    currentIndex = -1 \/ (0 <= currentIndex /\ currentIndex < Size)

C1_Witness ==
    /\ Size >= 2
    /\ currentIndex = Size - 1
    /\ command.op = "next"
    /\ contentUpdated

\* C2: from OpenAt(i) with i < size-1, next() moves to OpenAt(i+1); at
\* i = size-1 it changes neither the index, the displayed photo nor the
\* prev/next controls, and starts no preload.
C2_Next ==
    [][ (command'.op = "next" /\ currentIndex >= 0) =>
          IF currentIndex < Size - 1
          THEN currentIndex' = currentIndex + 1
          ELSE /\ UNCHANGED <<currentIndex, imageSrc, caption, prevVisible,
                              nextVisible>>
               /\ ~contentUpdated'
               /\ preloadIssued' = {} ]_vars

\* next() was absorbed at the last photo of a catalog of two or more.
C2_Witness ==
    /\ Size >= 2
    /\ currentIndex = Size - 1
    /\ command.op = "next"
    /\ ~contentUpdated
    /\ preloadIssued = {}

\* C3: from OpenAt(i) with i > 0, prev() moves to OpenAt(i-1); at i = 0 it
\* changes neither the index, the displayed photo nor the prev/next
\* controls, and starts no preload.
C3_Prev ==
    [][ (command'.op = "prev" /\ currentIndex >= 0) =>
          IF currentIndex > 0
          THEN currentIndex' = currentIndex - 1
          ELSE /\ UNCHANGED <<currentIndex, imageSrc, caption, prevVisible,
                              nextVisible>>
               /\ ~contentUpdated'
               /\ preloadIssued' = {} ]_vars

\* prev() was absorbed at the first photo of a catalog of two or more.
C3_Witness ==
    /\ Size >= 2
    /\ currentIndex = 0
    /\ ~lightboxHidden
    /\ command.op = "prev"
    /\ ~contentUpdated
    /\ preloadIssued = {}

\* C4: next() and prev() applied while the viewer is Closed leave it Closed
\* and update no content and start no preload, whichever listener issued
\* them; from Closed only open(i) changes the viewer state.
C4_ClosedAbsorbsNavigation ==
    [][ (Closed /\ lightboxHidden) =>
          /\ (command'.op \in {"next", "prev"} =>
                /\ currentIndex' = -1
                /\ lightboxHidden'
                /\ ~contentUpdated'
                /\ preloadIssued' = {})
          /\ (currentIndex' # -1 => command'.op = "open") ]_vars

\* C5: open(i) for a valid i, from Closed or from any OpenAt(j), results in
\* OpenAt(i) with photo i displayed, the caption and both controls set for
\* i, and preloads started for the neighbours of i.
C5_Open ==
    [][ command'.op = "open" =>
          LET i == command'.index IN
          /\ 0 <= i /\ i < Size
          /\ currentIndex' = i
          /\ ~lightboxHidden'
          /\ bodyOverflow' = "hidden"
          /\ contentUpdated'
          /\ imageSrc' = photos[i + 1].filename
          /\ caption' = formatDate(photos[i + 1].dateCaptured)
          /\ ~imageLoaded'
          /\ prevVisible' = (i > 0)
          /\ nextVisible' = (i < Size - 1)
          /\ preloadIssued' = Neighbours(i)
          /\ { photos[j + 1].filename : j \in Neighbours(i) }
                 \subseteq preloading' ]_vars

\* C6 (as claimed): open(i) followed by close() returns the viewer to
\* Closed, hidden, with page scroll restored, and the reference to the
\* full-size image that was shown is released.
C6_CloseReleasesImage ==
    [][ (command.op = "open" /\ command'.op = "close") =>
          /\ currentIndex' = -1
          /\ lightboxHidden'
          /\ bodyOverflow' = ""
          /\ imageSrc' = 0 ]_vars

\* C6 (amended): open(i) followed by close() returns the viewer to Closed,
\* hidden, with page scroll restored; the image's loaded marker is cleared
\* and the image keeps its reference to the full-size resource the open
\* showed.
C6_CloseAfterOpen ==
    [][ (command.op = "open" /\ command'.op = "close") =>
          /\ currentIndex' = -1
          /\ lightboxHidden'
          /\ bodyOverflow' = ""
          /\ ~imageLoaded'
          /\ imageSrc' = imageSrc
          /\ (contentUpdated => imageSrc' # 0) ]_vars

C6_Witness ==
    /\ command.op = "close"
    /\ Closed
    /\ lightboxHidden
    /\ bodyOverflow = ""
    /\ imageSrc # 0
    /\ imagePending

\* The variables a user of the viewer can observe.
closeState == <<currentIndex, lightboxHidden, bodyOverflow, imageLoaded>>

\* C7 (as claimed): close() in a Closed state leaves the index, the
\* visibility, the scroll lock and the loaded marker unchanged, and a
\* second close() changes nothing the first one left.
C7_CloseIsNoOpWhenClosed ==
    [][ command'.op = "close" =>
          /\ (Closed => UNCHANGED closeState)
          /\ (command.op = "close" => UNCHANGED closeState) ]_vars

\* C7 (amended): close() in a Closed state leaves the index, the
\* visibility and the scroll lock unchanged and leaves the loaded marker
\* cleared (it clears a marker that a late load of the last shown image
\* set); a second close() changes nothing the first one left.
C7_CloseIdempotent ==
    [][ command'.op = "close" =>
          /\ (Closed => /\ UNCHANGED <<currentIndex, lightboxHidden,
                                      bodyOverflow>>
                        /\ ~imageLoaded')
          /\ (command.op = "close" => UNCHANGED closeState) ]_vars

\* close() has cleared a loaded marker found in a Closed viewer: the image
\* was shown, its load has ended, and the viewer is closed and unmarked.
C7_Witness ==
    /\ command.op = "close"
    /\ Closed
    /\ lightboxHidden
    /\ imageSrc # 0
    /\ ~imagePending
    /\ ~imageLoaded

\* C8: whenever the viewer is OpenAt(i), the previous control is visible
\* iff i > 0 and the next control is visible iff i < size-1, and every
\* transition into OpenAt recomputes them.
C8_Affordances ==
    /\ [](currentIndex >= 0 =>
            /\ prevVisible = (currentIndex > 0)
            /\ nextVisible = (currentIndex < Size - 1))
    /\ [][ EntersOpenAt => contentUpdated' ]_vars

\* C9: every transition into OpenAt(i) by open, next or prev starts preload
\* fetches for exactly those of i-1 and i+1 that lie in [0, size).
C9_PreloadsNeighbours ==
    [][ EntersOpenAt =>
          /\ preloadIssued' = Neighbours(currentIndex')
          /\ preloading' = preloading \cup
                { photos[j + 1].filename : j \in Neighbours(currentIndex') }
      ]_vars

\* C10 (as claimed): the set of in-flight preload fetches never has more
\* than 2 entries.
C10_AtMostTwoInFlight == Cardinality(preloading) <= 2

\* C10 (amended): each command starts at most 2 preload fetches, but as
\* in-flight preloads are never cancelled the in-flight set accumulates
\* across commands; it is bounded by the catalog size, not by 2.
C10_AtMostTwoPerCommand ==
    /\ [](/\ Cardinality(preloadIssued) <= 2
          /\ Cardinality(preloading) <= Size)
    /\ [][ Cardinality(preloading' \ preloading) <= 2 ]_vars

\* Three preloads in flight at once.
C10_Witness ==
    /\ Cardinality(preloading) = 3
    /\ Cardinality(preloadIssued) <= 2
    /\ command.op \in {"open", "next", "prev"}

\* The command a touch end must emit for a horizontal difference.
SwipeCommand(diff) ==
    IF diff > 50 THEN "next" ELSE IF diff < -50 THEN "prev" ELSE "none"

\* C11: with diff = touchStartX - touchEndX, a touch end emits next() iff
\* diff > 50, prev() iff diff < -50 and no command when |diff| <= 50; the
\* vertical position of the touch has no influence.
C11_SwipeClassification ==
    [][ \A x \in TouchXs :
          (/\ touchEndX' = x
           /\ \E y \in TouchYs :
                  handleTouchEnd([screenX |-> x, screenY |-> y])) =>
            /\ command'.op = SwipeCommand(touchStartX - x)
            /\ (SwipeCommand(touchStartX - x) = "none" =>
                  UNCHANGED <<currentIndex, imageSrc, preloading>>) ]_vars

\* A swipe of 51 has moved the viewer forward.
C11_Witness ==
    /\ touchStartX - touchEndX = 51
    /\ command.op = "next"
    /\ ~lightboxHidden
    /\ currentIndex >= 1
    /\ contentUpdated

\* What the page shows and the script holds, without the step records.
shown == <<photos, currentIndex, lightboxHidden, bodyOverflow, imageLoaded,
           imageSrc, imageAlt, caption, imagePending, prevVisible,
           nextVisible, preloading, gallery, loadingHidden>>

\* The index prev() and next() lead to from index i.
PrevIndex(i) == IF i > 0 THEN i - 1 ELSE i

NextIndex(i) == IF i < Size - 1 THEN i + 1 ELSE i

OpenViewer == currentIndex >= 0 /\ ~lightboxHidden

\* C12: a key on the document changes nothing while the viewer is Closed;
\* while it is open Escape performs close(), ArrowLeft prev() and
\* ArrowRight next().
C12_DocumentKeys ==
    [][ /\ (Closed =>
              ((\E k \in Keys : DocumentKeydown(k)) =>
                   UNCHANGED shown /\ command'.op = "none"))
        /\ (OpenViewer =>
              /\ (DocumentKeydown("Escape") =>
                    /\ command'.op = "close"
                    /\ currentIndex' = -1
                    /\ lightboxHidden'
                    /\ bodyOverflow' = "")
              /\ (DocumentKeydown("ArrowLeft") =>
                    /\ command'.op = "prev"
                    /\ currentIndex' = PrevIndex(currentIndex)
                    /\ ~lightboxHidden')
              /\ (DocumentKeydown("ArrowRight") =>
                    /\ command'.op = "next"
                    /\ currentIndex' = NextIndex(currentIndex)
                    /\ ~lightboxHidden')
              /\ ((\E k \in Keys \ {"Escape", "ArrowLeft", "ArrowRight"} :
                       DocumentKeydown(k)) =>
                    UNCHANGED shown /\ command'.op = "none")) ]_vars

\* prev() has moved an open viewer from photo 1 to photo 0, no swipe
\* being the cause.
C12_Witness ==
    /\ Size = 3
    /\ command.op = "prev"
    /\ ~lightboxHidden
    /\ currentIndex = 0
    /\ contentUpdated
    /\ touchStartX = touchEndX

\* C13: a click on the prev or next control of an open viewer performs
\* prev() or next() only and leaves the viewer open; a click whose target
\* is the lightbox itself performs close().
C13_ControlClicks ==
    [][ /\ (OpenViewer /\ PrevClick =>
              /\ command'.op = "prev"
              /\ currentIndex' = PrevIndex(currentIndex)
              /\ ~lightboxHidden'
              /\ bodyOverflow' = bodyOverflow)
        /\ (OpenViewer /\ NextClick =>
              /\ command'.op = "next"
              /\ currentIndex' = NextIndex(currentIndex)
              /\ ~lightboxHidden'
              /\ bodyOverflow' = bodyOverflow)
        /\ (LightboxClick("lightbox") =>
              /\ command'.op = "close"
              /\ currentIndex' = -1
              /\ lightboxHidden')
        /\ ((\E t \in ClickTargets \ {"lightbox"} : LightboxClick(t)) =>
              UNCHANGED shown /\ command'.op = "none")
      ]_vars

\* next() has moved an open viewer to the last of three photos, no swipe
\* being the cause, and the viewer is still open.
C13_Witness ==
    /\ Size = 3
    /\ command.op = "next"
    /\ ~lightboxHidden
    /\ bodyOverflow = "hidden"
    /\ currentIndex = 2
    /\ contentUpdated
    /\ touchStartX = touchEndX

\* The catalog is loaded: init() has run to its end without an error.
Loaded == gallery \in {"items", "empty"}

\* Every entry of s has a dateCaptured that parses to a date.
AllDated(s) == \A k \in 1..Len(s) : s[k].dateCaptured \in Dates

\* s is in descending date order, entries of equal date in manifest order
\* (an entry's filename is its manifest position).
DescendingStable(s) ==
    \A i \in 1..Len(s) :
        \A j \in (i + 1)..Len(s) :
            \/ TimeValue(s[i].dateCaptured) > TimeValue(s[j].dateCaptured)
            \/ /\ TimeValue(s[i].dateCaptured) = TimeValue(s[j].dateCaptured)
               /\ s[i].filename < s[j].filename

\* s holds exactly the entries of the manifest list m, each once.
SameEntries(s, m) ==
    /\ Len(s) = Len(m)
    /\ \A k \in 1..Len(m) :
          Cardinality({ j \in 1..Len(s) : s[j] = m[k] })
              = Cardinality({ j \in 1..Len(m) : m[j] = m[k] })

NoPhotos(m) == ~m.has \/ m.photos = <<>>

\* C15: when the manifest's photos list is empty or absent the catalog has
\* size 0, the gallery shows the empty state with no thumbnails, and the
\* viewer stays Closed under every later sequence of input events.
C15_EmptyCatalog ==
    /\ [](gallery = "empty" =>
            /\ Size = 0
            /\ GalleryItems = {}
            /\ Closed
            /\ lightboxHidden
            /\ imageSrc = 0)
    /\ [][ gallery = "initial" =>
             \A m \in Manifests :
               (NoPhotos(m) /\ ManifestSettled("ok", m)) =>
                 /\ photos' = <<>>
                 /\ gallery' = "empty"
                 /\ loadingHidden' ]_vars
    /\ [][ gallery = "empty" => gallery' = "empty" ]_vars

\* next() was tried on the empty catalog and the viewer is still Closed.
C15_Witness ==
    /\ gallery = "empty"
    /\ Size = 0
    /\ command.op = "next"
    /\ Closed
    /\ lightboxHidden

\* The outcomes of the manifest load that are failures.
Failures == FetchOutcomes \ {"ok"}

\* A failed load delivers no manifest.
NoBody == [has |-> FALSE, isArray |-> TRUE, photos |-> <<>>]

\* C16: a manifest load failure is terminal for the attempt: the manifest
\* is fetched once, the gallery shows the error presentation with no
\* thumbnails, and the viewer stays Closed under every later input event.
C16_LoadFailure ==
    /\ [](manifestFetches <= 1)
    /\ [](gallery = "error" =>
            /\ GalleryItems = {}
            /\ loadingHidden
            /\ Closed
            /\ lightboxHidden)
    /\ [][ \A o \in Failures :
             ManifestSettled(o, NoBody) =>
               /\ gallery' = "error"
               /\ loadingHidden'
               /\ UNCHANGED <<photos, manifestFetches, currentIndex,
                              lightboxHidden>> ]_vars
    /\ [][ gallery = "error" => gallery' = "error" ]_vars

\* C17: the catalog is built once at load time; no open, next, prev,
\* close, swipe, key or preload step changes its contents, order or size.
C17_CatalogImmutable ==
    /\ [][ gallery # "initial" => photos' = photos ]_vars
    /\ [][ photos' # photos =>
             /\ photos = <<>>
             /\ gallery = "initial"
             /\ gallery' \in {"items", "error"}
             /\ command'.op = "none" ]_vars

\* A viewer that was opened, moved back and whose preloads have ended, the
\* catalog still in its load-time order.
C17_Witness ==
    /\ gallery = "items"
    /\ Size = 3
    /\ photos[1].filename = 3
    /\ command.op = "none"
    /\ currentIndex = 1
    /\ imageLoaded
    /\ preloading = {}

\* C18: whenever the viewer is OpenAt(i), the displayed full-size resource
\* and the caption are those of catalog[i], after any sequence of open,
\* next and prev commands.
C18_ContentMatchesIndex ==
    currentIndex >= 0 =>
        /\ HasPhoto(currentIndex)
        /\ imageSrc = photos[currentIndex + 1].filename
        /\ caption = formatDate(photos[currentIndex + 1].dateCaptured)
        /\ imageAlt = PhotoFrom(photos[currentIndex + 1].dateCaptured)

\* C19: the end of a preload fetch, loaded or failed, in any interleaving
\* with the commands, leaves the viewer state, the displayed photo and the
\* prev/next controls unchanged, starts no fetch, and leaves unchanged all
\* that a later navigation command reads.
C19_PreloadFireAndForget ==
    [][ \A f \in Resources :
          PreloadSettled(f) =>
            /\ UNCHANGED <<photos, currentIndex, lightboxHidden,
                           bodyOverflow, imageLoaded, imageSrc, imageAlt,
                           caption, imagePending, prevVisible, nextVisible,
                           gallery, touchStartX, touchEndX>>
            /\ preloading' = preloading \ {f}
            /\ preloadIssued' = {}
            /\ command'.op = "none" ]_vars

\* Both preloads of the middle photo have ended while that photo itself is
\* still loading in the open viewer.
C19_Witness ==
    /\ Size = 3
    /\ OpenViewer
    /\ currentIndex = 1
    /\ imagePending
    /\ ~imageLoaded
    /\ preloading = {}
    /\ command.op = "none"

\* C20: the lightbox is hidden iff currentIndex = -1, and the page scroll
\* lock is set iff the viewer is open.
C20_VisibilityAgreesWithIndex ==
    /\ lightboxHidden <=> (currentIndex = -1)
    /\ (bodyOverflow = "hidden") <=> ~lightboxHidden

====
